---------------------------- MODULE Spec2Model ----------------------------
(***************************************************************************)
(* LotusVale terrain demo (src/main.cpp): the height grid, the two height  *)
(* queries, the spawn finder and the capsule's vertical physics.           *)
(*                                                                         *)
(* Numbers.  Every elevation, coordinate, velocity and time of the program *)
(* is a float.  The model computes with IEEE-754 binary32 values, each     *)
(* operation rounded to nearest, ties to even, as the program's build      *)
(* does: a float is the record [m, e] standing for m * 2^e, with           *)
(* 2^23 <= |m| < 2^24, and zero is [m |-> 0, e |-> 0], so two floats are   *)
(* equal exactly when their records are.  The values of the model stay far *)
(* from the subnormals, the infinities and NaN, which it leaves out; +0    *)
(* and -0, which compare equal, are one value.                             *)
(*                                                                         *)
(* What the language leaves open.  The conversion of a float outside the   *)
(* range of int to int, and INT_MAX + 1, are undefined behaviour.  The     *)
(* variable build holds what the compiled program does in these cases; it  *)
(* is chosen at the start and every choice is explored.                    *)
(***************************************************************************)
EXTENDS Integers, Sequences, FiniteSets

VARIABLES
    pc,              \* position in main: "generate", "spawn", "lookAt", "loop"; "asked"
    heightMap,       \* the global std::vector<std::vector<float>> heightMap
    spawn,           \* main's local glm::vec3 spawn
    playerCapsule,   \* main's local CapsuleCollider playerCapsule
    query,           \* the last height query made by a collaborator and its answer
    lastCall,        \* the CapsuleCollider method that ran last
    terrainCallback, \* the std::function passed to update as getTerrainHeight
    build            \* the outcomes of the build where the language leaves them open

vars == <<pc, heightMap, spawn, playerCapsule, query, lastCall, terrainCallback, build>>

----------------------------------------------------------------------------
(* Bounds of the model *)

\* The program's grid is 256 x 256 (GRID_W, GRID_H); the model keeps the
\* names and the grid's upper left corner.  19 x 12 is the smallest corner
\* whose spawn scan covers two rows and finds the cell the program finds on
\* its full grid, (13, 5).
GRID_W == 19
GRID_H == 12
\* the frame loop's elapsed time ranges over 0..MaxElapsed clock ticks
MaxElapsed == 2
\* the capsule walks at most MaxWalk full frames away from its spawn on each axis
MaxWalk == 1
\* queries range MaxQuery world units beyond the terrain extent on every side
MaxQuery == 12
\* the dropped capsule starts 0..MaxDrop drop units above its rest height
MaxDrop == 2
\* the shortest frame is 1/ShortFrameRatio of the cap on dt
ShortFrameRatio == 1024
\* a frame of a display that refreshes in step is 1/VsyncRatio of the cap on dt
VsyncRatio == 3

(* Program constants *)

SpacingUnits == 10       \* const float spacing = 10.0f; the 10.f of the queries
GravityTenths == 98      \* const float gravity = -9.8f, in tenths
DtCapPercent == 5        \* dt = std::min(dt, 0.05f), in hundredths of a second
ScalePercent == 15       \* generateHeightMap(GRID_W, GRID_H, 0.15f), in hundredths
ElevationRange == 50     \* (hNoise - 0.5f) * 50.0f
Inset == 5               \* for (int y = 5; y < h - 5; ++y)
FlatThreshold == 1       \* dx < 1.0f && dz < 1.0f
ClearanceTenths == 1     \* + 0.1f
FallbackY == 50          \* glm::vec3(0.0f, 50.0f, 0.0f)
CapsuleHeightUnits == 4  \* findSpawnPoint(heightMap, 10.0f, 4.0f, 1.0f)
CapsuleRadiusUnits == 1
SpeedUnits == 10         \* float speed = 10.0f
LookAhead == 10          \* playerCapsule.posX + 10.0f
IntMax == 2147483647     \* the largest int

----------------------------------------------------------------------------
(* float: IEEE-754 binary32, round to nearest, ties to even *)

Abs(a) == IF a >= 0 THEN a ELSE -a
Sgn(a) == IF a > 0 THEN 1 ELSE IF a < 0 THEN -1 ELSE 0

\* std::clamp(v, lo, hi) on int
clamp(v, lo, hi) == IF v < lo THEN lo ELSE IF hi < v THEN hi ELSE v

Pow2(k) == 2^k
F(m, e) == [m |-> m, e |-> e]
Float == [m : Int, e : Int]
Zero == F(0, 0)

\* the number of bits of a > 0
BitLen[a \in Nat] == CHOOSE k \in 1..31 : a >= Pow2(k - 1) /\ (k = 31 \/ a < Pow2(k))

\* the float nearest to n * 2^e (ties to even), for an integer n
FRound[n \in Int, e \in Int] ==
    IF n = 0 THEN Zero
    ELSE LET a == Abs(n)
             k == BitLen[a]
         IN  IF k <= 24 THEN F(n * Pow2(24 - k), e - (24 - k))
             ELSE LET sh == k - 24
                      q == a \div Pow2(sh)
                      r == a % Pow2(sh)
                      half == Pow2(sh - 1)
                      q1 == IF r > half \/ (r = half /\ q % 2 = 1) THEN q + 1 ELSE q
                  IN  IF q1 = Pow2(24) THEN F(Sgn(n) * Pow2(23), e + sh + 1)
                      ELSE F(Sgn(n) * q1, e + sh)

\* unary minus; std::abs
FNeg[a \in Float] == F(-a.m, a.e)
FAbs[a \in Float] == F(Abs(a.m), a.e)

\* a + b.  When the exponents are far apart the smaller operand is reduced to
\* its leading bits and a sticky bit, which is all the rounding depends on.
FAdd[a \in Float, b \in Float] ==
    IF a.m = 0 THEN b
    ELSE IF b.m = 0 THEN a
    ELSE LET hi == IF a.e >= b.e THEN a ELSE b
             lo == IF a.e >= b.e THEN b ELSE a
             d == hi.e - lo.e
         IN  IF d <= 5 THEN FRound[hi.m * Pow2(d) + lo.m, lo.e]
             ELSE LET sh == IF d - 5 > 25 THEN 25 ELSE d - 5
                      bq == Abs(lo.m) \div Pow2(sh)
                      st == IF Abs(lo.m) % Pow2(sh) = 0 THEN 0 ELSE 1
                  IN  FRound[hi.m * 64 + Sgn(lo.m) * (2 * bq + st), hi.e - 6]

FSub[a \in Float, b \in Float] == FAdd[a, FNeg[b]]

\* a * b: the 48-bit product of the significands in 12-bit limbs, reduced to
\* its leading bits and a sticky bit
FMul[a \in Float, b \in Float] ==
    IF a.m = 0 \/ b.m = 0 THEN Zero
    ELSE LET ma == Abs(a.m)
             mb == Abs(b.m)
             a1 == ma \div 4096
             a0 == ma % 4096
             b1 == mb \div 4096
             b0 == mb % 4096
             mid == a1 * b0 + a0 * b1
             t == (mid % 4096) * 4096 + a0 * b0
             low == t % Pow2(24)
             hi == a1 * b1 + mid \div 4096 + t \div Pow2(24)
             st == IF low % Pow2(18) = 0 THEN 0 ELSE 1
             n == 2 * (hi * 64 + low \div Pow2(18)) + st
         IN  FRound[Sgn(a.m) * Sgn(b.m) * n, a.e + b.e + 17]

\* a / b for b # 0: long division to 27 quotient bits and a sticky bit
DivStep[rem \in Nat, mb \in Nat, q \in Nat, n \in Nat] ==
    IF n = 0 THEN <<q, rem>>
    ELSE IF 2 * rem >= mb THEN DivStep[2 * rem - mb, mb, 2 * q + 1, n - 1]
    ELSE DivStep[2 * rem, mb, 2 * q, n - 1]

FDiv[a \in Float, b \in Float] ==
    IF a.m = 0 THEN Zero
    ELSE LET ma == Abs(a.m)
             mb == Abs(b.m)
             qr == DivStep[ma % mb, mb, ma \div mb, 27]
             st == IF qr[2] = 0 THEN 0 ELSE 1
         IN  FRound[Sgn(a.m) * Sgn(b.m) * (2 * qr[1] + st), a.e - b.e - 28]

\* a < b, a <= b; std::min
FLt[a \in Float, b \in Float] == FSub[a, b].m < 0
FLe[a \in Float, b \in Float] == FSub[a, b].m <= 0
FMin[a \in Float, b \in Float] == IF FLt[b, a] THEN b ELSE a

\* the smallest int
IntMin == -IntMax - 1

\* int to float
FInt[n \in Int] == IF n = IntMin THEN F(-Pow2(23), 8) ELSE FRound[n, 0]

\* |a| < 2^31 or a = -2^31: the truncation of a is an int
InIntRange[a \in Float] == a.e <= 7 \/ (a.m = -Pow2(23) /\ a.e = 8)

\* the truncation of a toward zero, for a in the range of int
FTruncExact[a \in Float] ==
    IF a.e >= 0 THEN a.m * Pow2(a.e)
    ELSE IF -a.e >= 24 THEN 0
    ELSE Sgn(a.m) * (Abs(a.m) \div Pow2(-a.e))

\* static_cast<int>(a): truncation toward zero; undefined outside int
FTrunc(a) ==
    IF InIntRange[a] THEN FTruncExact[a]
    ELSE IF build.cast = "saturating" /\ a.m > 0 THEN IntMax
    ELSE IntMin

\* n + 1 on int; undefined at INT_MAX
IntSucc(n) == IF n = IntMax THEN build.sum ELSE n + 1

\* The builds: an out-of-range conversion yields INT_MIN whatever the sign
\* (x86-64's cvttss2si) or saturates to the nearest int; INT_MAX + 1,
\* which only a saturating conversion leads to, wraps or saturates.
Builds ==
    {b \in [cast : {"indefinite", "saturating"}, sum : {IntMin, IntMax}] :
        b.cast = "indefinite" => b.sum = IntMin}

\* the float literals of the program
One == FInt[1]
Half == FDiv[FInt[1], FInt[2]]
spacing == FInt[SpacingUnits]
gravity == FNeg[FDiv[FInt[GravityTenths], FInt[10]]]
DtCap == FDiv[FInt[DtCapPercent], FInt[100]]
NoiseScale == FDiv[FInt[ScalePercent], FInt[100]]
Clearance == FDiv[FInt[ClearanceTenths], FInt[10]]
capsuleHeight == FInt[CapsuleHeightUnits]
capsuleRadius == FInt[CapsuleRadiusUnits]
speed == FInt[SpeedUnits]

\* A variant of mix with its two ends exchanged.
mix_Reversed(x, y, a) == FAdd[FMul[y, FSub[One, a]], FMul[x, a]]

\* glm::mix(x, y, a), the linear blend x * (1 - a) + y * a of GLM's floats
mix(x, y, a) == FAdd[FMul[x, FSub[One, a]], FMul[y, a]]

----------------------------------------------------------------------------
(* NoiseField and HeightGrid *)

\* fractalNoise sums sines and cosines, which TLA+ cannot evaluate.  The
\* function is deterministic; NoiseSamples holds the values the build returns
\* at the sample points generateHeightMap asks for under the program's scale,
\* fractalNoise(x * 0.15f, y * 0.15f) in row y + 1, column x + 1, each as
\* the numerator of the float over 2^25.
NoiseSamples ==
    <<
       <<16777216, 21656196, 22181552, 24036378, 23112800, 23755396,
         26255154, 24126862, 23749014, 22942476, 22893118, 26842170,
         26291542, 25181486, 23976350, 21125494, 22753956, 21911806,
         19816664, 20197684, 19223042, 22781268, 25716836, 24584934,
         24818066, 22186026, 21637142, 22565728, 19090634, 17766846,
         15879852, 15352647, 18665328, 17444288, 16239344, 14790753,
         12209464, 14230586, 13511291, 12123571>>,
       <<16777216, 19479384, 22846288, 22647176, 23895886, 24683978,
         23941128, 25002084, 23534666, 23321064, 24892320, 24592330,
         26011828, 25133948, 23153490, 23365156, 21518650, 21285310,
         21054748, 19519852, 21489476, 22469940, 23683104, 25267450,
         23385480, 23227602, 22375880, 20363890, 20166288, 17485240,
         16559747, 17272588, 16398470, 17452336, 16117517, 14224403,
         14510668, 12860377, 13177080, 13298492>>,
       <<16777216, 17967308, 19945008, 22705796, 24218354, 24081620,
         23430904, 23348936, 24574136, 25484512, 25020280, 24061978,
         23434736, 23983830, 24522750, 23546648, 21896508, 20661588,
         20988496, 22346540, 22766750, 22391308, 22020552, 22483652,
         23676992, 23575332, 21954354, 19976438, 18758496, 18959188,
         18877984, 17605570, 16059595, 15071700, 15437395, 15837439,
         14875318, 13457160, 12647576, 13558524>>,
       <<16777216, 17242840, 17826816, 21516186, 22891528, 22965280,
         23489426, 23002960, 25298784, 26273352, 24654176, 23862680,
         22033984, 22823536, 24376988, 23054104, 22689584, 21599696,
         21953384, 24235394, 23248370, 22317366, 21191856, 20430090,
         22673500, 22403734, 21175890, 20348956, 18769338, 20151236,
         20005014, 17664990, 16278799, 14044656, 14791621, 16088312,
         14783932, 14662517, 13838603, 14834930>>,
       <<16777216, 16636725, 18814020, 18012548, 20263114, 22299334,
         22537334, 25439272, 24702170, 24468442, 25115754, 22626176,
         23251484, 22427142, 21354890, 23519924, 22757292, 23981382,
         24846594, 22855214, 23786010, 22048920, 20726902, 21381708,
         19156840, 20274062, 20798342, 19968790, 21741698, 19815156,
         18938242, 18678242, 15650048, 15998716, 14695567, 13738107,
         15875510, 15165376, 16849868, 17824884>>,
       <<16777216, 18348394, 16822458, 17560948, 17420354, 19835166,
         24249182, 24236548, 24608934, 23544576, 22440446, 24504556,
         23019332, 21782838, 21570078, 21058078, 24811718, 26004188,
         24883214, 24397208, 21655766, 22195546, 22238768, 19453652,
         18982266, 17551444, 19066960, 22191082, 21014608, 20528706,
         18488394, 16923300, 18398158, 16300962, 14945208, 14482771,
         14119551, 18062858, 19151654, 18382828>>,
       <<16777216, 16962946, 17095322, 16230264, 17133000, 19370202,
         21534378, 23418844, 23078952, 22580938, 22933378, 22833604,
         23035910, 22162272, 21486026, 22861874, 24304978, 25713550,
         25554804, 23683756, 22806748, 21845612, 20922296, 19839328,
         17848256, 17775168, 18944184, 20112782, 20978092, 19687838,
         18513766, 18208308, 17574218, 17344648, 16088162, 15326652,
         16670118, 18105832, 19595822, 19470132>>,
       <<16777216, 15524143, 16370753, 16667375, 18180110, 18832214,
         18539862, 20376784, 21390846, 22467752, 22974092, 21464730,
         21976540, 22739100, 23454068, 24732924, 23763706, 23855592,
         24514100, 23964344, 23873606, 21533494, 19446170, 19316902,
         18632228, 19240996, 18820990, 17731192, 18786010, 18963148,
         19407756, 19164680, 17154802, 17361418, 17726094, 18275512,
         19312934, 18203082, 18424312, 19066058>>,
       <<16777216, 16185023, 15096198, 18320600, 18366586, 17349770,
         17674618, 16511864, 19765586, 21784002, 20999106, 22117032,
         21167920, 23268332, 25985996, 24355900, 24283542, 22564250,
         22265130, 24703946, 22691092, 21474168, 19928100, 18239070,
         20709642, 19678046, 18028002, 17494218, 15716252, 18505934,
         19614068, 18354252, 18951880, 17536244, 19548772, 21712376,
         19808478, 19631414, 17673320, 17610622>>,
       <<16777216, 16349269, 18134868, 16795410, 17490262, 17208992,
         15321772, 17063416, 16905022, 18296940, 20926942, 20702294,
         23408824, 24414820, 24170166, 25536614, 23156444, 22693078,
         22754102, 20991878, 22304506, 21085696, 20267068, 21320842,
         19284892, 19496650, 18351280, 16013062, 17214138, 16367164,
         17452418, 19401264, 18735696, 21139230, 21522522, 21081726,
         22030852, 19278714, 18817716, 18517214>>,
       <<16777216, 18727062, 18048480, 17304528, 15637815, 15462264,
         16597794, 15714933, 15594774, 16047962, 18000126, 22218732,
         23949196, 24310658, 23965432, 22970714, 23946150, 23346292,
         21419826, 20354660, 19386486, 21097406, 22478434, 21312890,
         20107848, 17958120, 17481708, 18071194, 16663977, 16160627,
         16154367, 17833862, 21588612, 22721976, 22672190, 21841004,
         20551966, 21217158, 20122610, 17932478>>,
       <<16777216, 18476426, 17896722, 16890886, 15276533, 15026615,
         15855420, 15129147, 14857868, 15297960, 17339752, 21247028,
         23120562, 23499808, 23111202, 22374972, 23160562, 22672894,
         20946854, 19814430, 19147562, 20779224, 22143228, 21265444,
         19986118, 18092906, 17678040, 18132624, 17017690, 16451177,
         16542070, 18341714, 21820144, 23121576, 23040452, 22142430,
         21027312, 21395864, 20331918, 18188288>>,
       <<16777216, 15946876, 17318834, 15868726, 16279687, 15669691,
         13557969, 14998358, 14832337, 16149663, 18544860, 18241584,
         20797642, 21921114, 21909348, 23301054, 21101720, 20761124,
         21067504, 19739754, 21207170, 20193384, 19566232, 20816458,
         19250502, 19706036, 18743824, 16624533, 17919824, 17399132,
         18638524, 20528354, 19874678, 22138626, 22591814, 22226758,
         22986328, 20142068, 19461540, 19042412>>,
       <<16777216, 15619621, 13918880, 16707633, 16261882, 14811041,
         14812629, 13261159, 16290151, 18079234, 17051492, 18095474,
         17042134, 19207178, 22110962, 20636096, 20901614, 19496324,
         19554024, 22460242, 20785578, 19994178, 18866612, 17551288,
         20536376, 19901416, 18652528, 18531022, 17005976, 20107178,
         21385414, 20171488, 20846830, 19344916, 21324936, 23435716,
         21341522, 21052004, 18852566, 18529100>>,
       <<16777216, 14749219, 15008422, 14312034, 15238986, 15404822,
         14514229, 16104423, 16508056, 17191982, 17629850, 15852041,
         16505011, 17231982, 17933924, 19711522, 19030698, 19694514,
         20889064, 20599844, 21247250, 19458804, 17979236, 18586530,
         18202206, 19482868, 19688618, 19033976, 20718376, 20992256,
         21640132, 21703894, 19641726, 20033138, 20188814, 20439686,
         21501390, 20052014, 20119562, 20412396>>,
       <<16777216, 16166016, 15142377, 13539776, 13454975, 14942176,
         16696613, 17761130, 17006250, 16058671, 15992532, 16039386,
         16041892, 15231759, 14832541, 16328535, 18504422, 20423440,
         20740336, 19676070, 19273076, 19232310, 19178722, 18630154,
         17533022, 17989408, 19864314, 21875962, 23020254, 22251330,
         21310736, 21110374, 20890196, 20485624, 19147896, 18254490,
         19150186, 20568946, 21611848, 20928828>>,
       <<16777216, 17170374, 14697370, 14285315, 13242964, 14746767,
         18189074, 17598444, 17311744, 15806801, 14468208, 16182381,
         14766136, 13642451, 13626364, 13625442, 17721272, 19550244,
         19210448, 19413564, 17661132, 18992992, 19883224, 18125214,
         18417352, 17914466, 20176752, 23850592, 23408930, 23338734,
         21721576, 20497040, 21954272, 20004958, 18551300, 17858394,
         17322046, 20710016, 21378214, 20139666>>,
       <<16777216, 15308569, 16313312, 14400560, 15577109, 16489864,
         15648598, 17739688, 16398992, 15721281, 15996650, 13194956,
         13782940, 13160740, 12435353, 15019105, 14671261, 16508278,
         18223472, 17195506, 19133482, 18312048, 17939486, 19670426,
         18506660, 20604706, 21900748, 21709716, 24169074, 22879164,
         22525036, 22565474, 19611800, 20019948, 18715450, 17618856,
         19418224, 18131316, 19237834, 19686908>>,
       <<16777216, 15920153, 15011758, 17605102, 17647456, 16478939,
         16040477, 14449148, 16149229, 16588843, 14448029, 13597208,
         11589563, 12575842, 14553479, 13481173, 13806113, 13344494,
         14493340, 17943392, 17846424, 18079976, 18099244, 18320928,
         21857772, 22492938, 22137662, 22219224, 21179956, 23355380,
         23723066, 21639798, 20631146, 18322296, 19087506, 20275286,
         18428128, 17946042, 16440013, 16771194>>,
       <<16777216, 16480405, 17211948, 18258656, 18506934, 17198074,
         15279487, 14450018, 14638996, 14875974, 14189404, 12842633,
         12390110, 12982303, 13621661, 13340487, 12154401, 11791173,
         13064409, 15144254, 16889882, 17633620, 18461418, 20286594,
         22307208, 23390736, 22811418, 21607900, 21405534, 22023854,
         22470136, 21788742, 20350292, 19698704, 19882130, 19896774,
         18803106, 16736824, 15479396, 15749296>>,
       <<16777216, 18069006, 19727304, 18113776, 17809272, 17307484,
         15607609, 15469338, 13176763, 12239556, 13270583, 12982302,
         14235373, 13435931, 11769308, 12294895, 11325547, 11874321,
         12442089, 12010905, 14931454, 17271326, 19820970, 22447700,
         21819556, 22625690, 22860976, 21997724, 22451798, 20520290,
         20089530, 21180636, 20856298, 21910128, 20507968, 18409946,
         18205474, 16336458, 16046107, 15404048>>,
       <<16777216, 20024114, 18970842, 19277918, 16914328, 16218810,
         17497332, 14334357, 13069897, 11571369, 11032455, 14663320,
         14028124, 13022381, 12109159, 9754369, 12014811, 11976461,
         10820812, 12229287, 12392346, 17118802, 21257608, 21353932,
         22766176, 21289794, 21811992, 23704868, 21112482, 20517474,
         19230790, 19157086, 22740468, 21665566, 20437942, 18816674,
         15943302, 17514752, 16261110, 14250349>>,
       <<16777216, 17679044, 19574730, 17771390, 17687456, 17104178,
         14945554, 15097891, 12728964, 11862796, 12964109, 12078278,
         13450328, 12701354, 11007441, 11829079, 10405284, 10961303,
         11763663, 11202256, 14416634, 16378628, 18651766, 21576084,
         20824170, 21952486, 22133692, 20926752, 21770546, 19822976,
         19585032, 20790620, 19966354, 21268282, 19974258, 17971298,
         18125952, 15867953, 15718996, 15360820>>,
       <<16777216, 16327832, 16479597, 17984266, 17961238, 16414204,
         14704736, 13340165, 13890792, 14121703, 12908619, 11751115,
         10751509, 11435388, 12421271, 11658358, 10775570, 10192485,
         11342746, 13951009, 15188537, 15949597, 16697106, 18122006,
         20762394, 21668066, 21067244, 20199368, 19637250, 20838108,
         21382810, 20394302, 19318436, 18275054, 18801640, 19283548,
         17895954, 16330194, 14967664, 15341906>>,
       <<16777216, 15577764, 14737368, 16669445, 16711015, 15561796,
         14808809, 13497635, 14732902, 14936614, 12908712, 11581848,
         9736176, 10471425, 12086303, 11367765, 11445557, 11157014,
         12379833, 15329026, 15483974, 15507014, 15419835, 15883411,
         18965902, 19877152, 19733746, 19777738, 19266928, 21197084,
         21647374, 19910630, 18703000, 16851790, 17584338, 18726290,
         17487790, 16995662, 15953103, 16543584>>,
       <<16777216, 15186754, 15767615, 13464115, 14270002, 15105620,
         14354700, 16201550, 14543457, 13519910, 13609844, 10893772,
         11301766, 10387091, 9417917, 11873501, 11749209, 13632908,
         15143296, 13912795, 15647502, 14954212, 14693323, 16263733,
         14998172, 17031576, 18587646, 18801304, 21337572, 20076190,
         19724896, 19956070, 17443988, 18012282, 16776441, 15788574,
         17826000, 17110700, 18571580, 19132248>>
    >>

\* the grid index i whose sample coordinate i * 0.15f is v
SampleIndex(v) ==
    CHOOSE i \in 0..(Len(NoiseSamples[1]) - 1) : FMul[FInt[i], NoiseScale] = v

\* fractalNoise(x, y) at the sample coordinates
fractalNoise(x, y) ==
    FRound[NoiseSamples[SampleIndex(y) + 1][SampleIndex(x) + 1], -25]   \* normalized [0..1]

\* float height = (hNoise - 0.5f) * 50.0f
elevationOf(hNoise) == FMul[FSub[hNoise, Half], FInt[ElevationRange]]

generateHeightMap(w, h, scale) ==
    [y \in 0..(h - 1) |->
        [x \in 0..(w - 1) |->
            elevationOf(fractalNoise(FMul[FInt[x], scale], FMul[FInt[y], scale]))]]

\* the largest and smallest elevation generateHeightMap can store
MaxElevation == elevationOf(One)
MinElevation == elevationOf(Zero)

----------------------------------------------------------------------------
(* HeightSampler *)

\* heightMap[z][x], c = <<z, x>>
cellAt(hm, c) == hm[c[1]][c[2]]

\* getHeight: the <<row, column>> it indexes, and the value it returns
getHeightCell(x, z) ==
    LET gridX == FTrunc(FDiv[x, spacing])
        gridZ == FTrunc(FDiv[z, spacing])
    IN  <<clamp(gridZ, 0, GRID_H - 1), clamp(gridX, 0, GRID_W - 1)>>

getHeight(x, z) == cellAt(heightMap, getHeightCell(x, z))

\* getInterpolatedHeight: the four cells it indexes (h00, h10, h01, h11), the
\* fractional offsets (tx, tz), and the value it returns
getInterpolatedCells(x, z) ==
    LET x0 == FTrunc(FDiv[x, spacing])
        z0 == FTrunc(FDiv[z, spacing])
        cx0 == clamp(x0, 0, GRID_W - 1)
        cx1 == clamp(IntSucc(x0), 0, GRID_W - 1)
        cz0 == clamp(z0, 0, GRID_H - 1)
        cz1 == clamp(IntSucc(z0), 0, GRID_H - 1)
    IN  <<(<<cz0, cx0>>), (<<cz0, cx1>>), (<<cz1, cx0>>), (<<cz1, cx1>>)>>

getInterpolatedT(x, z) ==
    <<FSub[FDiv[x, spacing], FInt[FTrunc(FDiv[x, spacing])]],
      FSub[FDiv[z, spacing], FInt[FTrunc(FDiv[z, spacing])]]>>

getInterpolatedHeight(x, z) ==
    LET cells == getInterpolatedCells(x, z)
        t == getInterpolatedT(x, z)
        h00 == cellAt(heightMap, cells[1])
        h10 == cellAt(heightMap, cells[2])
        h01 == cellAt(heightMap, cells[3])
        h11 == cellAt(heightMap, cells[4])
    IN  mix(mix(h00, h10, t[1]), mix(h01, h11, t[1]), t[2])

----------------------------------------------------------------------------
(* SpawnFinder *)

vec3(x, y, z) == [x |-> x, y |-> y, z |-> z]

\* A variant of isFlat that compares a cell with its right neighbour only.
isFlat_RightOnly(hm, x, y) ==
    LET center == hm[y][x]
        dx == FAbs[FSub[center, hm[y][x + 1]]]
    IN  FLt[dx, FInt[FlatThreshold]]

\* the flatness test of one scanned cell
isFlat(hm, x, y) ==
    LET center == hm[y][x]
        dx == FAbs[FSub[center, hm[y][x + 1]]]
        dz == FAbs[FSub[center, hm[y + 1][x]]]
    IN  FLt[dx, FInt[FlatThreshold]] /\ FLt[dz, FInt[FlatThreshold]]

\* the two loops of findSpawnPoint from cell (x, y) on, and the fallback
RECURSIVE scanFrom(_, _, _, _, _, _)
scanFrom(hm, x, y, cellSpacing, height, radius) ==
    LET w == Cardinality(DOMAIN hm[0])
        h == Cardinality(DOMAIN hm)
    IN  IF y >= h - Inset THEN vec3(Zero, FInt[FallbackY], Zero)
        ELSE IF x >= w - Inset
             THEN scanFrom(hm, Inset, y + 1, cellSpacing, height, radius)
        ELSE IF isFlat(hm, x, y)
             THEN vec3(FMul[FInt[x], cellSpacing],
                       FAdd[FAdd[FAdd[hm[y][x], FMul[height, Half]], radius], Clearance],
                       FMul[FInt[y], cellSpacing])
        ELSE scanFrom(hm, x + 1, y, cellSpacing, height, radius)

\* A variant of findSpawnPoint whose scan starts at the grid's corner.
findSpawnPoint_FromCorner(hm, cellSpacing, height, radius) ==
    scanFrom(hm, 0, 0, cellSpacing, height, radius)

findSpawnPoint(hm, cellSpacing, height, radius) ==
    scanFrom(hm, Inset, Inset, cellSpacing, height, radius)

----------------------------------------------------------------------------
(* CapsuleCollider *)

CapsuleCollider(x, y, z, height, radius) ==
    [posX |-> x, posY |-> y, posZ |-> z, height |-> height,
     capsuleRadius |-> radius, velocityY |-> Zero,
     onGround |-> FALSE, clamped |-> FALSE]

\* A call of the std::function<float(float, float)> passed to update: the
\* program's getHeight, or a function that returns E everywhere.
callTerrainHeight(getTerrainHeight, x, z) ==
    IF getTerrainHeight.fn = "getHeight" THEN getHeight(x, z)
    ELSE getTerrainHeight.E

\* A variant of update that snaps the capsule's centre, not its bottom, onto
\* the terrain plus the radius (as the commented-out update did).
update_SnapToRadius(self, dt, getTerrainHeight) ==
    LET velocity1 == FAdd[self.velocityY, FMul[gravity, dt]]
        newY == FAdd[self.posY, FMul[velocity1, dt]]
        terrainY == callTerrainHeight(getTerrainHeight, self.posX, self.posZ)
        capsuleBottom == FSub[newY, FDiv[self.height, FInt[2]]]
    IN  IF FLe[capsuleBottom, terrainY]
        THEN [self EXCEPT !.posY = FAdd[terrainY, self.capsuleRadius],
                          !.velocityY = Zero]
        ELSE [self EXCEPT !.posY = newY, !.velocityY = velocity1]

\* A variant of update that lands without stopping the fall.
update_KeepVelocity(self, dt, getTerrainHeight) ==
    LET velocity1 == FAdd[self.velocityY, FMul[gravity, dt]]
        newY == FAdd[self.posY, FMul[velocity1, dt]]
        terrainY == callTerrainHeight(getTerrainHeight, self.posX, self.posZ)
        capsuleBottom == FSub[newY, FDiv[self.height, FInt[2]]]
    IN  IF FLe[capsuleBottom, terrainY]
        THEN [self EXCEPT !.posY = FAdd[terrainY, FDiv[self.height, FInt[2]]],
                          !.velocityY = velocity1]
        ELSE [self EXCEPT !.posY = newY, !.velocityY = velocity1]

update(self, dt, getTerrainHeight) ==
    LET velocity1 == FAdd[self.velocityY, FMul[gravity, dt]]
        newY == FAdd[self.posY, FMul[velocity1, dt]]
        terrainY == callTerrainHeight(getTerrainHeight, self.posX, self.posZ)
        capsuleBottom == FSub[newY, FDiv[self.height, FInt[2]]]
    IN  IF FLe[capsuleBottom, terrainY]
        THEN [self EXCEPT !.posY = FAdd[terrainY, FDiv[self.height, FInt[2]]],
                          !.velocityY = Zero]
        ELSE [self EXCEPT !.posY = newY, !.velocityY = velocity1]

\* A variant of moveHorizontal that follows the terrain while walking.
moveHorizontal_FollowTerrain(self, dx, dz) ==
    [self EXCEPT !.posX = FAdd[self.posX, dx], !.posZ = FAdd[self.posZ, dz],
                 !.posY = FAdd[getHeight(FAdd[self.posX, dx], FAdd[self.posZ, dz]),
                               FDiv[self.height, FInt[2]]],
                 !.velocityY = Zero]

moveHorizontal(self, dx, dz) ==
    [self EXCEPT !.posX = FAdd[self.posX, dx], !.posZ = FAdd[self.posZ, dz]]

----------------------------------------------------------------------------
(* main *)

NoCapsule == CapsuleCollider(Zero, Zero, Zero, Zero, Zero)
NoQuery == [fn |-> "none", x |-> Zero, z |-> Zero, cells |-> {}, result |-> Zero]

\* the callbacks: main passes getHeight; a flat terrain returns E everywhere
GetHeightCallback == [fn |-> "getHeight", E |-> Zero]
FlatCallback(E) == [fn |-> "flat", E |-> E]

\* dt = std::min(dt, 0.05f)
cappedDt(elapsed) == FMin[elapsed, DtCap]

\* The frame loop's elapsed time: a whole number of clock ticks, a tick as
\* long as the cap.
FrameTimes == {FMul[FInt[k], DtCap] : k \in 0..MaxElapsed}

\* moveDir after the key tests and glm::normalize: no key, or one of W, S, A,
\* D with the camera along an axis
MoveDirs ==
    {<<Zero, Zero>>, <<One, Zero>>, <<FNeg[One], Zero>>, <<Zero, One>>, <<Zero, FNeg[One]>>}

Init ==
    /\ pc = "generate"
    /\ heightMap = << >>
    /\ spawn = vec3(Zero, Zero, Zero)
    /\ playerCapsule = NoCapsule
    /\ query = NoQuery
    /\ lastCall = "none"
    /\ terrainCallback = GetHeightCallback
    /\ build \in Builds

\* A variant of GenerateHeightMap that can be called again after startup and
\* then rebuilds the grid in place at another scale.
GenerateHeightMap_Again(scale) ==
    /\ heightMap' = generateHeightMap(GRID_W, GRID_H,
                                      IF pc = "generate" THEN scale ELSE Zero)
    /\ pc' = IF pc = "generate" THEN "spawn" ELSE pc
    /\ UNCHANGED <<spawn, playerCapsule, query, lastCall, terrainCallback, build>>

\* generateHeightMap(GRID_W, GRID_H, 0.15f), once at startup
GenerateHeightMap(scale) ==
    /\ pc = "generate"
    /\ heightMap' = generateHeightMap(GRID_W, GRID_H, scale)
    /\ pc' = "spawn"
    /\ UNCHANGED <<spawn, playerCapsule, query, lastCall, terrainCallback, build>>

\* spawn = findSpawnPoint(heightMap, 10.0f, 4.0f, 1.0f) and the capsule's
\* construction at it
FindSpawn ==
    /\ pc = "spawn"
    /\ LET s == findSpawnPoint(heightMap, spacing, capsuleHeight, capsuleRadius)
       IN  /\ spawn' = s
           /\ playerCapsule' = CapsuleCollider(s.x, s.y, s.z, capsuleHeight,
                                               capsuleRadius)
    /\ pc' = "lookAt"
    /\ UNCHANGED <<heightMap, query, lastCall, terrainCallback, build>>

\* a collaborator's query, and what it read
askHeight(x, z) ==
    [fn |-> "getHeight", x |-> x, z |-> z,
     cells |-> {getHeightCell(x, z)}, result |-> getHeight(x, z)]
askInterpolatedHeight(x, z) ==
    [fn |-> "getInterpolatedHeight", x |-> x, z |-> z,
     cells |-> {getInterpolatedCells(x, z)[i] : i \in 1..4},
     result |-> getInterpolatedHeight(x, z)]

\* the initial look-at target: getInterpolatedHeight(posX + 10.0f, posZ)
LookAt ==
    /\ pc = "lookAt"
    /\ query' = askInterpolatedHeight(FAdd[playerCapsule.posX, FInt[LookAhead]],
                                      playerCapsule.posZ)
    /\ pc' = "loop"
    /\ UNCHANGED <<heightMap, spawn, playerCapsule, lastCall, terrainCallback, build>>

\* the arguments of the frame's moveHorizontal: moveDir.x * speed * dt and
\* moveDir.z * speed * dt
moveBy(moveDir, dt) == <<FMul[FMul[moveDir[1], speed], dt], FMul[FMul[moveDir[2], speed], dt]>>

\* the capsule is within MaxWalk full frames of walking of its spawn
InWalk(c) ==
    LET reach == FMul[FInt[MaxWalk], FMul[speed, DtCap]]
    IN  /\ FLe[FAbs[FSub[c.posX, spawn.x]], reach]
        /\ FLe[FAbs[FSub[c.posZ, spawn.z]], reach]

\* the frame loop's shortest elapsed time
ShortFrame == FDiv[DtCap, FInt[ShortFrameRatio]]

\* the elapsed time of a frame that waits for the display (glfwSwapInterval(1))
VsyncFrame == FDiv[DtCap, FInt[VsyncRatio]]

\* One iteration of the frame loop: dt from the clock, capped;
\* playerCapsule.moveHorizontal(...); playerCapsule.update(dt, getHeight).
Frame(elapsed, moveDir) ==
    LET dt == cappedDt(elapsed)
        d == moveBy(moveDir, dt)
        moved == moveHorizontal(playerCapsule, d[1], d[2])
    IN  /\ pc = "loop"
        /\ InWalk(moved)
        /\ playerCapsule' = update(moved, dt, terrainCallback)
        /\ lastCall' = "update"
        /\ UNCHANGED <<pc, heightMap, spawn, query, terrainCallback, build>>

Next ==
    \/ GenerateHeightMap(NoiseScale)
    \/ FindSpawn
    \/ LookAt
    \/ \E elapsed \in FrameTimes, moveDir \in MoveDirs : Frame(elapsed, moveDir)

Spec == Init /\ [][Next]_vars

----------------------------------------------------------------------------
(* findSpawnPoint alone, as a function of the grid it is given: the grids  *)
(* generateHeightMap builds for the program's size and smaller ones, at no  *)
(* scale (a level grid), at the program's scale and at twice that.          *)

SpawnScales == {Zero, NoiseScale, FMul[FInt[2], NoiseScale]}

SpawnGrids ==
    {generateHeightMap(w, h, s) :
        w \in (GRID_W - 7)..GRID_W, h \in (GRID_H - 1)..GRID_H, s \in SpawnScales}

InitSpawn ==
    /\ pc = "spawn"
    /\ heightMap \in SpawnGrids
    /\ spawn = vec3(Zero, Zero, Zero)
    /\ playerCapsule = NoCapsule
    /\ query = NoQuery
    /\ lastCall = "none"
    /\ terrainCallback = GetHeightCallback
    /\ build \in Builds

SpecSpawn == InitSpawn /\ [][FindSpawn]_vars

----------------------------------------------------------------------------
(* The two height queries as functions of (x, z), asked by a collaborator   *)
(* of the generated grid: one query per run.  The coordinates are every     *)
(* whole world unit within MaxQuery of an edge of the terrain extent,       *)
(* outside or inside, every half cell in between, and a coordinate whose    *)
(* quotient by the spacing is beyond int, 3e10f, on either side.            *)

Huge == FMul[FInt[3], FMul[FInt[100000], FInt[100000]]]

QueryCoords(extent) ==
    {FInt[v] : v \in {u \in (-MaxQuery)..(extent + MaxQuery) :
                          \/ u <= MaxQuery
                          \/ u >= extent - MaxQuery
                          \/ (2 * u) % SpacingUnits = 0}}
    \cup {Huge, FNeg[Huge]}
QueryX == QueryCoords((GRID_W - 1) * SpacingUnits)
QueryZ == QueryCoords((GRID_H - 1) * SpacingUnits)

AskHeight(x, z) ==
    /\ pc = "spawn"
    /\ query' = askHeight(x, z)
    /\ pc' = "asked"
    /\ UNCHANGED <<heightMap, spawn, playerCapsule, lastCall, terrainCallback, build>>

AskInterpolatedHeight(x, z) ==
    /\ pc = "spawn"
    /\ query' = askInterpolatedHeight(x, z)
    /\ pc' = "asked"
    /\ UNCHANGED <<heightMap, spawn, playerCapsule, lastCall, terrainCallback, build>>

NextQuery ==
    \/ GenerateHeightMap(NoiseScale)
    \/ pc = "spawn" /\ \E x \in QueryX, z \in QueryZ : AskHeight(x, z)
    \/ pc = "spawn" /\ \E x \in QueryX, z \in QueryZ : AskInterpolatedHeight(x, z)

SpecQuery == Init /\ [][NextQuery]_vars

----------------------------------------------------------------------------------------------------------------------------------------
(* A capsule created at rest above flat terrain of elevation E and only     *)
(* ever updated: the frame loop without input, the callback returning E.    *)
(* The loop caps dt from above only, so a frame has any of the elapsed      *)
(* times, in any state and any number of times: none, the shortest frame,   *)
(* a frame of a display that refreshes in step, or a whole number of half   *)
(* caps.  The loop runs update every frame and the clock advances between   *)
(* frames, so frames with dt > 0 keep happening, of whatever length: weak   *)
(* fairness on the frames with dt > 0 taken together.  The capsule starts   *)
(* at its rest height or a few drop units above it, near enough for frames  *)
(* of the shortest length alone to bring it down.                           *)

DropElevations == {FDiv[FInt[k], FInt[10]] : k \in {0, 3, 7}}

\* the unit of the heights the capsule is dropped from, 2^-12
DropUnit == F(Pow2(23), -35)

DropFrameTimes ==
    {FMul[FInt[k], FMul[DtCap, Half]] : k \in 0..(2 * MaxElapsed)}
        \cup {ShortFrame, VsyncFrame}

NoMove == <<Zero, Zero>>

\* terrainY + height / 2.f under the capsule
RestHeight(c) ==
    FAdd[callTerrainHeight(terrainCallback, c.posX, c.posZ), FDiv[c.height, FInt[2]]]

InitDrop ==
    /\ pc = "loop"
    /\ heightMap = << >>
    /\ \E E \in DropElevations, d \in 0..MaxDrop :
          /\ terrainCallback = FlatCallback(E)
          /\ spawn = vec3(Zero,
                          FAdd[FAdd[E, FDiv[capsuleHeight, FInt[2]]],
                               FMul[FInt[d], DropUnit]],
                          Zero)
    /\ playerCapsule = CapsuleCollider(spawn.x, spawn.y, spawn.z, capsuleHeight,
                                       capsuleRadius)
    /\ query = NoQuery
    /\ lastCall = "none"
    /\ build \in Builds

\* one frame, of any of the elapsed times
NextDrop == \E elapsed \in DropFrameTimes : Frame(elapsed, NoMove)

\* one frame with dt > 0
FramePositive == \E elapsed \in DropFrameTimes \ {Zero} : Frame(elapsed, NoMove)

SpecDrop == InitDrop /\ [][NextDrop]_vars /\ WF_vars(FramePositive)
----------------------------------------------------------------------------
(* Properties: the capsule *)

\* the capsule's bottom, and the terrain under it as update's callback sees it
Bottom(c) == FSub[c.posY, FDiv[c.height, FInt[2]]]
TerrainUnder(c) == callTerrainHeight(terrainCallback, c.posX, c.posZ)

\* update's predicted position and snap test, from the state before the call
candidateY(c, dt) == FAdd[c.posY, FMul[FAdd[c.velocityY, FMul[gravity, dt]], dt]]
snaps(c, dt) == FLe[FSub[candidateY(c, dt), FDiv[c.height, FInt[2]]], TerrainUnder(c)]

\* the capsule as the frame's moveHorizontal leaves it, before its update
movedBy(e, d) ==
    moveHorizontal(playerCapsule, moveBy(d, cappedDt(e))[1], moveBy(d, cappedDt(e))[2])

\* half a unit in the last place of the float a # 0
HalfUlp(a) == F(Pow2(23), a.e - 1 - 23)

\* C1 as stated, its first part: immediately after every update the capsule's
\* bottom posY - height/2 is not below the terrain height under the capsule.
C1_BottomNotBelow ==
    lastCall = "update" => FLe[TerrainUnder(playerCapsule), Bottom(playerCapsule)]

C1_RestsOnSum ==
    lastCall = "update" =>
        /\ FLe[RestHeight(playerCapsule), playerCapsule.posY]
        /\ FLe[FSub[TerrainUnder(playerCapsule), Bottom(playerCapsule)],
               HalfUlp(playerCapsule.posY)]

C1_UpdateStep ==
    \A e \in FrameTimes, d \in MoveDirs :
        Frame(e, d) =>
            IF snaps(movedBy(e, d), cappedDt(e))
            THEN /\ playerCapsule'.posY = RestHeight(movedBy(e, d))
                 /\ playerCapsule'.velocityY = Zero
            ELSE playerCapsule'.posY = candidateY(movedBy(e, d), cappedDt(e))

\* C1: immediately after every update posY is not below the float sum
\* terrainHeight + height/2 under the capsule, so that the bottom
\* posY - height/2 is below the terrain by at most that sum's rounding error,
\* half a unit in the last place of posY; an update whose predicted bottom is
\* at or below the terrain leaves posY = terrainHeight + height/2 (the float
\* sum) and velocityY = 0, any other leaves posY at the predicted position.
C1_NoPenetration == [](C1_RestsOnSum) /\ [][C1_UpdateStep]_vars

\* after horizontal movement an update has snapped the capsule onto the
\* terrain, and the rounding of terrainHeight + height/2 has left the bottom
\* below the terrain
C1_Witness ==
    /\ pc = "loop"
    /\ lastCall = "update"
    /\ playerCapsule.posX # spawn.x
    /\ playerCapsule.posY = RestHeight(playerCapsule)
    /\ playerCapsule.velocityY = Zero
    /\ FLt[Bottom(playerCapsule), TerrainUnder(playerCapsule)]

\* the dropped capsule is at its rest height; it rests there
C2_AtRest == playerCapsule.posY = FAdd[terrainCallback.E, FDiv[playerCapsule.height, FInt[2]]]
C2_Grounded == C2_AtRest /\ playerCapsule.velocityY = Zero

C2_RestStep ==
    \A e \in DropFrameTimes :
        (C2_AtRest /\ Frame(e, NoMove)) =>
            LET dt == cappedDt(e)
                newY == candidateY(playerCapsule, dt)
            IN  /\ playerCapsule'.posY = playerCapsule.posY
                /\ FLt[newY, playerCapsule.posY] => playerCapsule'.velocityY = Zero
                /\ playerCapsule'.velocityY # Zero =>
                       /\ playerCapsule'.velocityY
                              = FAdd[playerCapsule.velocityY, FMul[gravity, dt]]
                       /\ newY = playerCapsule.posY
                       /\ FLt[TerrainUnder(playerCapsule), Bottom(playerCapsule)]

C8_FlagsReflectUpdate ==
    [][\A e \in FrameTimes, d \in MoveDirs :
          Frame(e, d) =>
              /\ playerCapsule'.onGround = snaps(movedBy(e, d), cappedDt(e))
              /\ playerCapsule'.clamped = snaps(movedBy(e, d), cappedDt(e))]_vars

C9_FrameStep ==
    \A e \in FrameTimes, d \in MoveDirs :
        Frame(e, d) =>
            /\ playerCapsule'.posX = FAdd[playerCapsule.posX, moveBy(d, cappedDt(e))[1]]
            /\ playerCapsule'.posZ = FAdd[playerCapsule.posZ, moveBy(d, cappedDt(e))[2]]

C9_EitherOrder ==
    pc = "loop" =>
        \A e \in FrameTimes, d \in MoveDirs :
            LET dt == cappedDt(e)
                dx == moveBy(d, dt)[1]
                dz == moveBy(d, dt)[2]
                moved == moveHorizontal(playerCapsule, dx, dz)
                updated == update(playerCapsule, dt, terrainCallback)
                moveFirst == update(moved, dt, terrainCallback)
                updateFirst == moveHorizontal(updated, dx, dz)
            IN  /\ moved.posX = FAdd[playerCapsule.posX, dx]
                /\ moved.posZ = FAdd[playerCapsule.posZ, dz]
                /\ moved.posY = playerCapsule.posY
                /\ moved.velocityY = playerCapsule.velocityY
                /\ updated.posX = playerCapsule.posX
                /\ updated.posZ = playerCapsule.posZ
                /\ moveFirst.posX = updateFirst.posX
                /\ moveFirst.posZ = updateFirst.posZ

\* C9: moveHorizontal(dx, dz) adds dx to posX and dz to posZ and leaves posY
\* and velocityY alone, update leaves posX and posZ alone, and a tick's
\* moveHorizontal and update give the same (posX, posZ) in either order.
C9_MoveIndependent == [](C9_EitherOrder) /\ [][C9_FrameStep]_vars

\* the capsule has been moved along both axes while falling
C9_Witness ==
    /\ pc = "loop"
    /\ lastCall = "update"
    /\ playerCapsule.posX # spawn.x
    /\ playerCapsule.posZ # spawn.z
    /\ playerCapsule.velocityY.m < 0
    /\ FLt[TerrainUnder(playerCapsule), Bottom(playerCapsule)]

C10_GridShape ==
    pc # "generate" =>
        /\ DOMAIN heightMap = 0..(GRID_H - 1)
        /\ \A y \in DOMAIN heightMap : DOMAIN heightMap[y] = 0..(GRID_W - 1)

\* C10: once generateHeightMap has returned, no step of the session changes
\* a heightMap cell or the grid's dimensions.
C10_GridImmutable ==
    [][pc # "generate" => heightMap' = heightMap]_vars /\ [](C10_GridShape)

\* the spawn scan, the look-at query and frames that moved the capsule and
\* let it fall have all run
C10_Witness ==
    /\ pc = "loop"
    /\ query.fn = "getInterpolatedHeight"
    /\ lastCall = "update"
    /\ playerCapsule.posX # spawn.x
    /\ playerCapsule.posY # spawn.y

----------------------------------------------------------------------------
(* Properties: the height queries *)

\* the world extent of the terrain, the nearest in-extent coordinate to v, and
\* floor(v / spacing), kept within int, with its fractional part
ExtentX == FInt[(GRID_W - 1) * SpacingUnits]
ExtentZ == FInt[(GRID_H - 1) * SpacingUnits]
Nearest(v, extent) == IF FLt[v, Zero] THEN Zero ELSE IF FLt[extent, v] THEN extent ELSE v
InExtent(v, extent) == FLe[Zero, v] /\ FLe[v, extent]
InGrid(c) == c[1] \in 0..(GRID_H - 1) /\ c[2] \in 0..(GRID_W - 1)
FloorCell(v) ==
    LET q == FDiv[v, spacing]
    IN  IF ~InIntRange[q] THEN (IF q.m < 0 THEN IntMin ELSE IntMax)
        ELSE IF FLt[q, FInt[FTruncExact[q]]] THEN FTruncExact[q] - 1
        ELSE FTruncExact[q]
NextCell(v) == IF FloorCell(v) = IntMax THEN IntMax ELSE FloorCell(v) + 1
Fraction(v) == FSub[FDiv[v, spacing], FInt[FloorCell(v)]]

\* C3: both queries index heightMap only inside [0,W) x [0,H), and a query
\* outside the terrain extent (negative, or beyond (W-1)*spacing or
\* (H-1)*spacing) returns what the same query returns at the nearest
\* in-extent coordinate.
C3_QueriesClamp ==
    pc = "asked" =>
        LET nearX == Nearest(query.x, ExtentX)
            nearZ == Nearest(query.z, ExtentZ)
        IN  /\ \A c \in query.cells : InGrid(c)
            /\ query.fn = "getHeight" => query.result = getHeight(nearX, nearZ)
            /\ query.fn = "getInterpolatedHeight"
                   => query.result = getInterpolatedHeight(nearX, nearZ)

\* C4: getHeight(worldX, worldZ) returns the elevation stored in cell
\* (clamp(floor(worldX/spacing), 0, W-1), clamp(floor(worldZ/spacing), 0, H-1));
\* at a grid cell's own coordinate (i*spacing, j*spacing) that is heightMap[j][i].
C4_NearestCell ==
    (pc = "asked" /\ query.fn = "getHeight") =>
        /\ query.result = heightMap[clamp(FloorCell(query.z), 0, GRID_H - 1)]
                                   [clamp(FloorCell(query.x), 0, GRID_W - 1)]
        /\ \A i \in 0..(GRID_W - 1), j \in 0..(GRID_H - 1) :
               (query.x = FMul[FInt[i], spacing] /\ query.z = FMul[FInt[j], spacing])
                   => query.result = heightMap[j][i]

\* worldX / spacing converted to int as C++ converts it, towards zero (the
\* build's conversion where the quotient is out of int's range), and the
\* offset of the quotient from it
TruncCell(v) ==
    IF ~InIntRange[FDiv[v, spacing]] THEN FTrunc(FDiv[v, spacing])
    ELSE IF FloorCell(v) < 0 /\ Fraction(v) # Zero THEN FloorCell(v) + 1
    ELSE FloorCell(v)
Offset(v) == FSub[FDiv[v, spacing], FInt[TruncCell(v)]]

\* the blend of the four cells around (x, z), each index clamped into the
\* grid, along x in both rows and then along z
Blend(x, z) ==
    LET i == clamp(TruncCell(x), 0, GRID_W - 1)
        j == clamp(TruncCell(z), 0, GRID_H - 1)
        i1 == clamp(IntSucc(TruncCell(x)), 0, GRID_W - 1)
        j1 == clamp(IntSucc(TruncCell(z)), 0, GRID_H - 1)
        row0 == mix(heightMap[j][i], heightMap[j][i1], Offset(x))
        row1 == mix(heightMap[j1][i], heightMap[j1][i1], Offset(x))
    IN  mix(row0, row1, Offset(z))

\* the midpoint query's cells: elevations a and b of the cell at the floor of
\* (x, z) and of its right neighbour
MidA == heightMap[FloorCell(query.z)][FloorCell(query.x)]
MidB == heightMap[FloorCell(query.z)][FloorCell(query.x) + 1]
AtMidpoint ==
    /\ pc = "asked"
    /\ query.fn = "getInterpolatedHeight"
    /\ InExtent(query.x, ExtentX) /\ InExtent(query.z, ExtentZ)
    /\ Fraction(query.x) = Half /\ Fraction(query.z) = Zero

\* C5: getInterpolatedHeight blends the four cells around the coordinate,
\* each index clamped into the grid, along x in both rows and then along z,
\* by the fractional offsets; at a cell corner (both fractional offsets 0)
\* it returns that cell's elevation, and midway between two horizontally
\* adjacent cells of elevations a and b (tx = 1/2, tz = 0) it returns
\* (a + b) / 2.
C5_Bilinear ==
    (pc = "asked" /\ query.fn = "getInterpolatedHeight") =>
        LET i == clamp(FloorCell(query.x), 0, GRID_W - 1)
            j == clamp(FloorCell(query.z), 0, GRID_H - 1)
        IN  /\ query.result = Blend(query.x, query.z)
            /\ (Fraction(query.x) = Zero /\ Fraction(query.z) = Zero)
                   => query.result = heightMap[j][i]
            /\ AtMidpoint => query.result = FDiv[FAdd[MidA, MidB], FInt[2]]

\* a bilinear query midway between two horizontally adjacent cells of
\* different elevation, answered with the float (a + b) / 2, which is
\* neither a nor b
C5_Witness ==
    /\ AtMidpoint
    /\ MidA # MidB
    /\ query.result = FDiv[FAdd[MidA, MidB], FInt[2]]
    /\ query.result # MidA
    /\ query.result # MidB

----------------------------------------------------------------------------
(* Properties: the spawn scan *)

\* the cells findSpawnPoint scans, those that pass its flatness test, and the
\* row-major scan order
GridW == Cardinality(DOMAIN heightMap[0])
GridH == Cardinality(DOMAIN heightMap)
ScanRegion == (Inset..(GridW - Inset - 1)) \X (Inset..(GridH - Inset - 1))
PassesFlatness(x, y) ==
    /\ FLt[FAbs[FSub[heightMap[y][x], heightMap[y][x + 1]]], FInt[FlatThreshold]]
    /\ FLt[FAbs[FSub[heightMap[y][x], heightMap[y + 1][x]]], FInt[FlatThreshold]]
FlatCells == {c \in ScanRegion : PassesFlatness(c[1], c[2])}
ScannedBefore(c, d) == c[2] < d[2] \/ (c[2] = d[2] /\ c[1] <= d[1])
SpawnAbove(c) ==
    vec3(FMul[FInt[c[1]], spacing],
         FAdd[FAdd[FAdd[heightMap[c[2]][c[1]], FDiv[capsuleHeight, FInt[2]]],
                   capsuleRadius], Clearance],
         FMul[FInt[c[2]], spacing])

\* C6: findSpawnPoint accepts the first cell, in row-major order over the
\* region inset 5 cells from every edge, whose elevation differs from its
\* right and its lower neighbour by less than the threshold, and returns
\* (x*spacing, elevation + capsuleHeight/2 + capsuleRadius + clearance,
\* y*spacing); on a flat grid that cell is (5,5).
C6_FirstFlatCell ==
    (pc = "lookAt" /\ FlatCells # {}) =>
        /\ \E c \in FlatCells :
               /\ \A d \in FlatCells : ScannedBefore(c, d)
               /\ spawn = SpawnAbove(c)
        /\ (\A y \in 0..(GridH - 1), x \in 0..(GridW - 1) :
                heightMap[y][x] = heightMap[0][0])
               => spawn = SpawnAbove(<<Inset, Inset>>)

\* the scan passed over a cell that fails the test and accepted a later one,
\* with more flat cells after it
C6_Witness ==
    /\ pc = "lookAt"
    /\ Cardinality(FlatCells) >= 2
    /\ <<Inset, Inset>> \notin FlatCells
    /\ spawn.x # FMul[FInt[Inset], spacing]
    /\ spawn.y # FInt[FallbackY]

\* C7: when no cell of the inset region passes the flatness test,
\* findSpawnPoint returns (0, 50, 0), and a capsule created there has its
\* bottom above every elevation generateHeightMap can produce.
C7_Fallback ==
    (pc = "lookAt" /\ FlatCells = {}) =>
        /\ spawn = vec3(Zero, FInt[FallbackY], Zero)
        /\ playerCapsule.posY = FInt[FallbackY]
        /\ FLt[MaxElevation, Bottom(playerCapsule)]
        /\ \A y \in 0..(GridH - 1), x \in 0..(GridW - 1) :
               /\ FLe[heightMap[y][x], MaxElevation]
               /\ FLt[heightMap[y][x], Bottom(playerCapsule)]

\* the fallback was returned although a cell outside the inset region passes
\* the flatness test and a cell inside it is level with its right neighbour
C7_Witness ==
    /\ pc = "lookAt"
    /\ FlatCells = {}
    /\ spawn = vec3(Zero, FInt[FallbackY], Zero)
    /\ \E x \in 0..(GridW - 2), y \in 0..(GridH - 2) : PassesFlatness(x, y)
    /\ \E c \in ScanRegion :
           FLt[FAbs[FSub[heightMap[c[2]][c[1]], heightMap[c[2]][c[1] + 1]]],
               FInt[FlatThreshold]]

=============================================================================
